---- MODULE Spec2Model ----
(***************************************************************************)
(* The AIOps latency monitor (src/aiops/monitor.py): an endless loop that  *)
(* probes an endpoint, appends the measured latency to a bounded history,  *)
(* and, once the history holds enough points, fits an IsolationForest on   *)
(* the history and predicts whether the newest latency is an anomaly.      *)
(*                                                                         *)
(* Latencies are milliseconds, modelled as integers.  The IsolationForest  *)
(* is a third-party library: the model records what it is constructed      *)
(* with, what it is fitted on and what it is asked, and leaves the         *)
(* prediction it returns open (either -1 or 1).                            *)
(***************************************************************************)
EXTENDS Integers, Sequences, FiniteSets

\* ---------------------------------------------------------------- bounds
\* Loop iterations explored (the loop itself never ends).
MaxTicks == 52
\* Samples of a run that may differ from the nominal latency.
MaxOutliers == 1

\* ------------------------------------------------------ program constants
HISTORY_SIZE == 50
MinPoints == 20
Penalty == 2000
RandomState == 42
Anomaly == -1
Normal == 1

\* Latencies a probe that succeeds may measure.
OkLatencies == {12, 500}
Nominal == CHOOSE x \in OkLatencies : \A y \in OkLatencies : x <= y

VARIABLES
    pc,               \* position in the loop body
    latency_history,  \* the list of [latency] rows
    current_latency,  \* the sample of this iteration
    clf,              \* the IsolationForest of this iteration
    predict_X,        \* the rows handed to clf.predict
    prediction,       \* prediction[0]
    stdout_lines,     \* number of verdict lines printed
    last_line,        \* the last verdict line printed
    pushed,           \* history variable: every value ever appended, in order
    probe_failed,     \* history variable: the last get_latency took the except path
    outcome           \* history variable: what this iteration produced so far

vars == <<pc, latency_history, current_latency, clf, predict_X, prediction,
          stdout_lines, last_line, pushed, probe_failed, outcome>>

\* ----------------------------------------------------------------- helpers
LastN(s, n) == SubSeq(s, Len(s) - n + 1, Len(s))
MinOf(a, b) == IF a <= b THEN a ELSE b
\* The column of values held by a list of one-element rows.
Contents(h) == [i \in 1..Len(h) |-> h[i][1]]
Outliers(s) == Cardinality({i \in 1..Len(s) : s[i] # Nominal})

\* get_latency: the elapsed time in ms, or the penalty when the request raises.
ProbeResultSeconds(ok, ms) == IF ok THEN ms ELSE 2
ProbeResult(ok, ms) == IF ok THEN ms ELSE Penalty

\* latency_history.append([current_latency])
AppendRow(h, v) == Append(h, <<v>>)

\* len(latency_history) > HISTORY_SIZE
OverCapacityLate(h) == Len(h) > HISTORY_SIZE + 1
OverCapacity(h) == Len(h) > HISTORY_SIZE

\* latency_history.pop(0)
PopNewest(h) == SubSeq(h, 1, Len(h) - 1)
Pop0(h) == Tail(h)

\* len(latency_history) >= 20
EnoughHistoryStrict(h) == Len(h) > MinPoints
EnoughHistoryEarly(h) == Len(h) >= MinPoints - 1
EnoughHistory(h) == Len(h) >= MinPoints

\* clf.fit(latency_history): the rows the forest is trained on.
FitRowsWithoutNewest(h) == SubSeq(h, 1, Len(h) - 1)
FitRows(h) == h

\* clf.predict([[current_latency]]): the rows to classify.
QueryRows(v) == << <<v>> >>

Unfitted == [random_state |-> 0, X |-> <<>>]

\* -------------------------------------------------------------------- Init
Init ==
    /\ pc = "probe"
    /\ latency_history = <<>>
    /\ current_latency = 0
    /\ clf = Unfitted
    /\ predict_X = <<>>
    /\ prediction = 0
    /\ stdout_lines = 0
    /\ last_line = [kind |-> "none", latency |-> 0]
    /\ pushed = <<>>
    /\ probe_failed = FALSE
    /\ outcome = "none"

\* ----------------------------------------------------------------- actions
\* line 26: current_latency = get_latency()
GetLatency ==
    /\ pc = "probe"
    /\ Len(pushed) < MaxTicks
    /\ \E ok \in BOOLEAN, ms \in OkLatencies :
          /\ ok \/ ms = Nominal
          /\ (ok /\ ms = Nominal) \/ Outliers(pushed) < MaxOutliers
          /\ current_latency' = ProbeResult(ok, ms)
          /\ probe_failed' = ~ok
    /\ outcome' = "none"
    /\ pc' = "append"
    /\ UNCHANGED <<latency_history, clf, predict_X, prediction, stdout_lines,
                   last_line, pushed>>

\* line 27: latency_history.append([current_latency])
AppendSample ==
    /\ pc = "append"
    /\ latency_history' = AppendRow(latency_history, current_latency)
    /\ pushed' = Append(pushed, current_latency)
    /\ pc' = "evict"
    /\ UNCHANGED <<current_latency, clf, predict_X, prediction, stdout_lines,
                   last_line, probe_failed, outcome>>

\* lines 30-31: if len(latency_history) > HISTORY_SIZE: latency_history.pop(0)
Evict ==
    /\ pc = "evict"
    /\ latency_history' = IF OverCapacity(latency_history)
                             THEN Pop0(latency_history)
                             ELSE latency_history
    /\ pc' = "gate"
    /\ UNCHANGED <<current_latency, clf, predict_X, prediction, stdout_lines,
                   last_line, pushed, probe_failed, outcome>>

\* line 34: if len(latency_history) >= 20
Gate ==
    /\ pc = "gate"
    /\ IF EnoughHistory(latency_history)
          THEN pc' = "fit" /\ outcome' = outcome
          ELSE pc' = "sleep" /\ outcome' = "skipped"
    /\ UNCHANGED <<latency_history, current_latency, clf, predict_X, prediction,
                   stdout_lines, last_line, pushed, probe_failed>>

\* lines 36-37: clf = IsolationForest(contamination=0.1, random_state=42); clf.fit(...)
Fit ==
    /\ pc = "fit"
    /\ clf' = [random_state |-> RandomState, X |-> FitRows(latency_history)]
    /\ pc' = "predict"
    /\ UNCHANGED <<latency_history, current_latency, predict_X, prediction,
                   stdout_lines, last_line, pushed, probe_failed, outcome>>

\* line 40: prediction = clf.predict([[current_latency]])
Predict ==
    /\ pc = "predict"
    /\ predict_X' = QueryRows(current_latency)
    /\ \E p \in {Anomaly, Normal} : prediction' = p
    /\ pc' = "report"
    /\ UNCHANGED <<latency_history, current_latency, clf, stdout_lines,
                   last_line, pushed, probe_failed, outcome>>

\* lines 42-46: print the verdict line
Report ==
    /\ pc = "report"
    /\ last_line' = [kind |-> IF prediction = Anomaly THEN "anomaly" ELSE "stable",
                     latency |-> current_latency]
    /\ stdout_lines' = stdout_lines + 1
    /\ outcome' = "verdict"
    /\ pc' = "sleep"
    /\ UNCHANGED <<latency_history, current_latency, clf, predict_X, prediction,
                   pushed, probe_failed>>

\* line 48: time.sleep(POLL_INTERVAL), then the next iteration
Sleep ==
    /\ pc = "sleep"
    /\ pc' = "probe"
    /\ UNCHANGED <<latency_history, current_latency, clf, predict_X, prediction,
                   stdout_lines, last_line, pushed, probe_failed, outcome>>

Next ==
    \/ GetLatency
    \/ AppendSample
    \/ Evict
    \/ Gate
    \/ Fit
    \/ Predict
    \/ Report
    \/ Sleep

Spec == Init /\ [][Next]_vars

\* ------------------------------------------------------------- properties
\* The push-and-evict step of an iteration is complete.
Settled == pc \in {"probe", "gate", "fit", "predict", "report", "sleep"}

\* C1: whenever the push-and-evict step of an iteration is complete, the
\* length of the window is at least 0 and at most HISTORY_SIZE.
C1_WindowBound ==
    Settled => (Len(latency_history) >= 0 /\ Len(latency_history) <= HISTORY_SIZE)

C1_Witness ==
    /\ pc = "gate"
    /\ Len(pushed) > HISTORY_SIZE
    /\ Len(latency_history) = HISTORY_SIZE

\* C2: after the n-th push the window holds exactly the last
\* min(n, HISTORY_SIZE) pushed values, oldest first; right after the append
\* and before the eviction it holds the last min(n, HISTORY_SIZE + 1), so an
\* eviction removes exactly one element, the oldest.
C2_WindowIsSuffix ==
    /\ Settled =>
          Contents(latency_history) = LastN(pushed, MinOf(Len(pushed), HISTORY_SIZE))
    /\ pc = "evict" =>
          Contents(latency_history) = LastN(pushed, MinOf(Len(pushed), HISTORY_SIZE + 1))

C2_Witness ==
    /\ pc = "gate"
    /\ Len(pushed) = HISTORY_SIZE + 2
    /\ Outliers(pushed) > 0
    /\ Contents(latency_history) = LastN(pushed, HISTORY_SIZE)
    /\ Contents(latency_history) # SubSeq(pushed, 1, HISTORY_SIZE)

\* C3: at the end of an iteration whose window holds fewer than MinPoints
\* samples nothing was classified or printed; at the end of one whose window
\* holds at least MinPoints exactly one verdict was printed for it.  So
\* iterations 1..19 print nothing, every later one prints one line, and the
\* window never falls back below MinPoints.
C3_MinimumHistoryGate ==
    pc = "sleep" =>
       /\ (Len(latency_history) < MinPoints <=> Len(pushed) < MinPoints)
       /\ Len(latency_history) < MinPoints =>
             (outcome = "skipped" /\ stdout_lines = 0 /\ clf = Unfitted)
       /\ Len(latency_history) >= MinPoints =>
             /\ outcome = "verdict"
             /\ stdout_lines = Len(pushed) - (MinPoints - 1)
             /\ last_line.latency = current_latency

C3_Witness ==
    /\ pc = "sleep"
    /\ Len(pushed) = MinPoints + 1
    /\ outcome = "verdict"
    /\ stdout_lines = 2

\* C4 (as stated): an iteration whose history holds fewer than MinPoints
\* entries ends with an InsufficientHistory error signalled.
C4_InsufficientHistorySignalled ==
    (pc = "sleep" /\ Len(latency_history) < MinPoints)
       => outcome = "InsufficientHistory"

\* C4 (amended): an iteration whose history holds fewer than MinPoints
\* entries is skipped silently: the detector is neither built nor asked and
\* no error is signalled; with exactly MinPoints entries the detector is
\* fitted and asked and a verdict is produced.
C4_SilentSkipBelowMinPoints ==
    pc = "sleep" =>
       /\ Len(latency_history) < MinPoints =>
             /\ outcome = "skipped"
             /\ clf = Unfitted
             /\ predict_X = <<>>
             /\ prediction = 0
       /\ Len(latency_history) = MinPoints =>
             /\ outcome = "verdict"
             /\ Len(clf.X) = MinPoints
             /\ prediction \in {Anomaly, Normal}

C4_Witness ==
    /\ pc = "sleep"
    /\ Len(latency_history) = MinPoints - 1
    /\ outcome = "skipped"

\* C5: a probe that fails yields the sample Penalty; in that iteration the
\* sample is appended to the window, the window is held to its capacity, the
\* forest is trained on the window holding it, the sample is the one
\* classified, the gate is the length test of any other iteration, and the
\* loop can always take its next step.
C5_FailedProbeIsOrdinarySample ==
    probe_failed =>
       /\ current_latency = Penalty
       /\ pc # "probe" \/ Len(pushed) < MaxTicks => ENABLED Next
       /\ pc \notin {"append"} =>
             /\ pushed[Len(pushed)] = Penalty
             /\ latency_history[Len(latency_history)] = <<Penalty>>
       /\ Settled => Len(latency_history) = MinOf(Len(pushed), HISTORY_SIZE)
       /\ pc \in {"predict", "report"} =>
             (clf.X = latency_history /\ clf.X[Len(clf.X)] = <<Penalty>>)
       /\ pc = "report" => predict_X = QueryRows(Penalty)
       /\ pc = "sleep" =>
             /\ outcome = (IF Len(pushed) >= MinPoints THEN "verdict" ELSE "skipped")
             /\ outcome = "verdict" =>
                   (predict_X = QueryRows(Penalty) /\ last_line.latency = Penalty)

C5_Witness ==
    /\ probe_failed
    /\ pc = "sleep"
    /\ outcome = "verdict"
    /\ Len(pushed) > HISTORY_SIZE
    /\ last_line.latency = Penalty

\* C10: when the detector is fitted the window is the one left by this
\* iteration's push and eviction, its length is within MinPoints..HISTORY_SIZE
\* and its newest element is this iteration's sample; the forest is fitted on
\* exactly that window and asked about exactly that sample; and fitting,
\* predicting and reporting leave the window as it was.
C10_PerTickOrdering ==
    /\ pc \in {"fit", "predict", "report"} =>
          /\ Contents(latency_history) = LastN(pushed, MinOf(Len(pushed), HISTORY_SIZE))
          /\ Len(latency_history) >= MinPoints
          /\ Len(latency_history) <= HISTORY_SIZE
          /\ latency_history[Len(latency_history)] = <<current_latency>>
          /\ current_latency = pushed[Len(pushed)]
    /\ pc \in {"predict", "report"} =>
          /\ clf.X = latency_history
          /\ clf.random_state = RandomState
    /\ pc = "report" =>
          /\ predict_X = QueryRows(current_latency)
          /\ predict_X[1] = clf.X[Len(clf.X)]
    /\ (pc = "sleep" /\ outcome = "verdict") =>
          /\ clf.X = latency_history
          /\ predict_X = QueryRows(current_latency)
          /\ Contents(latency_history) = LastN(pushed, MinOf(Len(pushed), HISTORY_SIZE))

C10_Witness ==
    /\ pc = "report"
    /\ Len(pushed) > HISTORY_SIZE
    /\ Outliers(pushed) > 0
    /\ clf.X = latency_history
    /\ predict_X = QueryRows(current_latency)

====
